---- MODULE Spec2Model ----
(***************************************************************************)
(* A model of the transaction processor: process_transaction (main.rs)    *)
(* over the client ledger, the RingBuffer of processed transactions       *)
(* (datatypes.rs) and the map of held (disputed) transactions.            *)
(*                                                                         *)
(* Amounts are f64 in the program.  Here an amount is an integer number   *)
(* of units, so additions and subtractions are exact: the model says      *)
(* nothing about binary floating-point rounding, NaN or infinities.       *)
(* Option<T> is modelled as a sequence: None is <<>>, Some(x) is <<x>>.   *)
(***************************************************************************)
EXTENDS Integers, Sequences, FiniteSets, TLC

\* Number of process_transaction calls explored (Spec).
MaxSteps == 4
\* Number of pushes explored on a buffer alone (SpecRB).
MaxPushes == 4
\* Largest capacity requested from RingBuffer::with_capacity.
MaxCapacity == 1
\* VecDeque::with_capacity(n) allocates space for AT LEAST n elements: the
\* capacity it reports is explored from n up to n + MaxSlack.
MaxSlack == 1

\* The client ids (u16), transaction ids (u32, not required to be unique) and
\* amounts (in units) the explored records are drawn from.
ClientIds == {1, 2}
TxIds == {1, 2}
Amounts == {1, 2}

None == <<>>
Some(x) == <<x>>
unwrap(o) == o[1]

TransactionType == {"deposit", "withdrawal", "dispute", "resolve", "chargeback"}

\* datatypes.rs Transaction: the records the reader can deserialize.  The amount
\* is optional for every type; a dispute-family record never has its amount
\* read, so one present value is explored for it.
Transaction ==
    [tx_type : {"deposit", "withdrawal"}, client : ClientIds, id : TxIds,
     amount : {None} \cup {Some(a) : a \in Amounts}]
    \cup
    [tx_type : {"dispute", "resolve", "chargeback"}, client : ClientIds, id : TxIds,
     amount : {None, Some(1)}]

\* datatypes.rs Client::new
ClientNew(c) == [client |-> c, available |-> 0, held |-> 0, total |-> 0, locked |-> FALSE]

EmptyMap == [k \in {} |-> None]

\* HashMap::remove
MapRemove(m, k) == [x \in (DOMAIN m) \ {k} |-> m[x]]

\* HashMap::insert (overwrites an existing key)
MapInsert(m, k, v) == [x \in (DOMAIN m) \cup {k} |-> IF x = k THEN v ELSE m[x]]

\* Mutant of EntryOrInsert: insert() in place of entry().or_insert_with(), which
\* replaces an existing account by a new one.
EntryOrInsert_Replace(cl, c) == MapInsert(cl, c, ClientNew(c))

\* clients.entry(c).or_insert_with(|| Client::new(c))
EntryOrInsert(cl, c) == IF c \in DOMAIN cl THEN cl ELSE MapInsert(cl, c, ClientNew(c))

(***************************************************************************)
(* RingBuffer: inside is the VecDeque's content, oldest first, cap is     *)
(* what VecDeque::capacity() reports.                                      *)
(***************************************************************************)

\* RingBuffer::with_capacity: the buffers VecDeque::with_capacity(n) may build.
with_capacity(n) == {[inside |-> <<>>, cap |-> c] : c \in n..(n + MaxSlack)}

\* VecDeque growth when push_back finds the deque full (amortized doubling,
\* at least 4 elements).
GrowCapacity(c) == IF 2 * c > 4 THEN 2 * c ELSE 4

\* RingBuffer::push
push(rb, item) ==
    LET popped == IF Len(rb.inside) = rb.cap /\ rb.inside # <<>>
                  THEN Tail(rb.inside)
                  ELSE rb.inside
        cap1 == IF Len(popped) = rb.cap THEN GrowCapacity(rb.cap) ELSE rb.cap
    IN  [inside |-> Append(popped, item), cap |-> cap1]

\* Mutant of get_by_tx: the closure compares the wrong field with the id.
get_by_tx_ByClient(rb, id) ==
    LET hits == {i \in 1..Len(rb.inside) : rb.inside[i].client = id}
    IN  IF hits = {} THEN None
        ELSE Some(rb.inside[CHOOSE i \in hits : \A j \in hits : i <= j])

\* RingBuffer::get_by_tx: the first entry, oldest first, with that id.
get_by_tx(rb, id) ==
    LET hits == {i \in 1..Len(rb.inside) : rb.inside[i].id = id}
    IN  IF hits = {} THEN None
        ELSE Some(rb.inside[CHOOSE i \in hits : \A j \in hits : i <= j])

(***************************************************************************)
(* process_transaction.  The result is the Ok or the kind of the Err      *)
(* returned (the program returns the message as a String), together with  *)
(* the three stores as the call leaves them.                               *)
(***************************************************************************)
Outcome(r, cl, rb, held) ==
    [result |-> r, clients |-> cl, processed_txs |-> rb, held_txs |-> held]

\* Mutant of DepositFunds: the total is not updated.
DepositFunds_NoTotal(c, amount) ==
    [c EXCEPT !.available = @ + amount]

\* client.available += amount; client.total += amount
DepositFunds(c, amount) ==
    [c EXCEPT !.available = @ + amount, !.total = @ + amount]

\* Mutant of InsufficientFunds: a withdrawal of the whole available balance is refused.
InsufficientFunds_OrEqual(c, amount) == c.available <= amount

\* Mutant of InsufficientFunds: a locked account cannot withdraw.
InsufficientFunds_OrLocked(c, amount) == c.locked \/ c.available < amount

\* if client.available < amount { return Err(..) }
InsufficientFunds(c, amount) == c.available < amount

\* client.available -= amount; client.total -= amount
WithdrawFunds(c, amount) ==
    [c EXCEPT !.available = @ - amount, !.total = @ - amount]

\* Mutant of HoldFunds: the disputed amount is also taken from the total.
HoldFunds_FromTotal(c, amount) ==
    [c EXCEPT !.available = @ - amount, !.held = @ + amount, !.total = @ - amount]

\* Mutant of HoldFunds: the account is locked when the dispute opens.
HoldFunds_Lock(c, amount) ==
    [c EXCEPT !.available = @ - amount, !.held = @ + amount, !.locked = TRUE]

\* client.available -= amount; client.held += amount
HoldFunds(c, amount) ==
    [c EXCEPT !.available = @ - amount, !.held = @ + amount]

\* client.held -= amount; client.available += amount
ReleaseFunds(c, amount) ==
    [c EXCEPT !.held = @ - amount, !.available = @ + amount]

\* Mutant of ChargebackFunds: the account is not locked.
ChargebackFunds_NoLock(c, amount) ==
    [c EXCEPT !.held = @ - amount, !.total = @ - amount]

\* client.held -= amount; client.total -= amount; client.locked = true
ChargebackFunds(c, amount) ==
    [c EXCEPT !.held = @ - amount, !.total = @ - amount, !.locked = TRUE]

\* Mutant of ProcessDeposit: the transaction is pushed before the amount is read.
ProcessDeposit_PushFirst(t, cl, rb, held) ==
    LET cl1 == EntryOrInsert(cl, t.client)
    IN  IF t.amount = None
        THEN Outcome("MissingAmount", cl1, push(rb, t), held)
        ELSE Outcome("Ok",
                     [cl1 EXCEPT ![t.client] = DepositFunds(@, unwrap(t.amount))],
                     push(rb, t), held)

\* TransactionType::Deposit arm: the account is created before the amount is read.
ProcessDeposit(t, cl, rb, held) ==
    LET cl1 == EntryOrInsert(cl, t.client)
    IN  IF t.amount = None
        THEN Outcome("MissingAmount", cl1, rb, held)
        ELSE Outcome("Ok",
                     [cl1 EXCEPT ![t.client] = DepositFunds(@, unwrap(t.amount))],
                     push(rb, t), held)

\* Mutant of ProcessWithdrawal: the account is created once the checks have passed.
ProcessWithdrawal_CheckFirst(t, cl, rb, held) ==
    LET cl1 == EntryOrInsert(cl, t.client)
    IN  IF t.amount = None
        THEN Outcome("MissingAmount", cl, rb, held)
        ELSE IF InsufficientFunds(cl1[t.client], unwrap(t.amount))
        THEN Outcome("InsufficientFunds", cl, rb, held)
        ELSE Outcome("Ok",
                     [cl1 EXCEPT ![t.client] = WithdrawFunds(@, unwrap(t.amount))],
                     push(rb, t), held)

\* TransactionType::Withdrawal arm: the account is created before any check.
ProcessWithdrawal(t, cl, rb, held) ==
    LET cl1 == EntryOrInsert(cl, t.client)
    IN  IF t.amount = None
        THEN Outcome("MissingAmount", cl1, rb, held)
        ELSE IF InsufficientFunds(cl1[t.client], unwrap(t.amount))
        THEN Outcome("InsufficientFunds", cl1, rb, held)
        ELSE Outcome("Ok",
                     [cl1 EXCEPT ![t.client] = WithdrawFunds(@, unwrap(t.amount))],
                     push(rb, t), held)

\* Mutant of ProcessDispute: only the owner of a transaction may dispute it.
ProcessDispute_OwnerOnly(t, cl, rb, held) ==
    LET found == get_by_tx(rb, t.id)
    IN  IF found = None
        THEN Outcome("UnknownTransaction", cl, rb, held)
        ELSE LET disputed_tx == unwrap(found)
             IN  IF disputed_tx.client \notin DOMAIN cl \/ disputed_tx.client # t.client
                 THEN Outcome("UnknownAccount", cl, rb, held)
                 ELSE IF disputed_tx.tx_type \notin {"deposit", "withdrawal"}
                 THEN Outcome("InvalidDisputeTarget", cl, rb, held)
                 ELSE IF disputed_tx.amount = None
                 THEN Outcome("Panic", cl, rb, held)
                 ELSE Outcome("Ok",
                              [cl EXCEPT ![disputed_tx.client] =
                                             HoldFunds(@, unwrap(disputed_tx.amount))],
                              rb,
                              MapInsert(held, t.id, disputed_tx))

\* TransactionType::Dispute arm: held_txs is not consulted.  unwrap() of an
\* absent amount panics: the outcome "Panic", after which nothing runs.
ProcessDispute(t, cl, rb, held) ==
    LET found == get_by_tx(rb, t.id)
    IN  IF found = None
        THEN Outcome("UnknownTransaction", cl, rb, held)
        ELSE LET disputed_tx == unwrap(found)
             IN  IF disputed_tx.client \notin DOMAIN cl
                 THEN Outcome("UnknownAccount", cl, rb, held)
                 ELSE IF disputed_tx.tx_type \notin {"deposit", "withdrawal"}
                 THEN Outcome("InvalidDisputeTarget", cl, rb, held)
                 ELSE IF disputed_tx.amount = None
                 THEN Outcome("Panic", cl, rb, held)
                 ELSE Outcome("Ok",
                              [cl EXCEPT ![disputed_tx.client] =
                                             HoldFunds(@, unwrap(disputed_tx.amount))],
                              rb,
                              MapInsert(held, t.id, disputed_tx))

\* Mutant of ProcessResolve: the disputed transaction is looked up in the buffer
\* first, as the Dispute arm does.
ProcessResolve_ThroughBuffer(t, cl, rb, held) ==
    IF get_by_tx(rb, t.id) = None \/ t.id \notin DOMAIN held
    THEN Outcome("UnknownDispute", cl, rb, held)
    ELSE LET disputed_tx == held[t.id]
         IN  Outcome("Ok",
                     [cl EXCEPT ![disputed_tx.client] =
                                    ReleaseFunds(@, unwrap(disputed_tx.amount))],
                     rb,
                     MapRemove(held, t.id))

\* TransactionType::Resolve arm: held_txs.remove(&tx.id) comes first, so the
\* entry is gone even when the account lookup then fails.
ProcessResolve(t, cl, rb, held) ==
    IF t.id \notin DOMAIN held
    THEN Outcome("UnknownDispute", cl, rb, held)
    ELSE LET disputed_tx == held[t.id]
             held1 == MapRemove(held, t.id)
         IN  IF disputed_tx.client \notin DOMAIN cl
             THEN Outcome("UnknownAccount", cl, rb, held1)
             ELSE IF disputed_tx.amount = None
             THEN Outcome("Panic", cl, rb, held1)
             ELSE Outcome("Ok",
                          [cl EXCEPT ![disputed_tx.client] =
                                         ReleaseFunds(@, unwrap(disputed_tx.amount))],
                          rb,
                          MapRemove(held1, disputed_tx.id))

\* Mutant of ProcessChargeback: the charged-back account is closed, i.e. removed
\* from the ledger.
ProcessChargeback_RemovesAccount(t, cl, rb, held) ==
    IF t.id \notin DOMAIN held
    THEN Outcome("UnknownDispute", cl, rb, held)
    ELSE LET disputed_tx == held[t.id]
         IN  IF disputed_tx.client \notin DOMAIN cl
             THEN Outcome("UnknownAccount", cl, rb, MapRemove(held, t.id))
             ELSE Outcome("Ok", MapRemove(cl, disputed_tx.client), rb,
                          MapRemove(held, t.id))

\* TransactionType::Chargeback arm
ProcessChargeback(t, cl, rb, held) ==
    IF t.id \notin DOMAIN held
    THEN Outcome("UnknownDispute", cl, rb, held)
    ELSE LET disputed_tx == held[t.id]
             held1 == MapRemove(held, t.id)
         IN  IF disputed_tx.client \notin DOMAIN cl
             THEN Outcome("UnknownAccount", cl, rb, held1)
             ELSE IF disputed_tx.amount = None
             THEN Outcome("Panic", cl, rb, held1)
             ELSE Outcome("Ok",
                          [cl EXCEPT ![disputed_tx.client] =
                                         ChargebackFunds(@, unwrap(disputed_tx.amount))],
                          rb,
                          MapRemove(held1, disputed_tx.id))

process_transaction(t, cl, rb, held) ==
    CASE t.tx_type = "deposit"    -> ProcessDeposit(t, cl, rb, held)
      [] t.tx_type = "withdrawal" -> ProcessWithdrawal(t, cl, rb, held)
      [] t.tx_type = "dispute"    -> ProcessDispute(t, cl, rb, held)
      [] t.tx_type = "resolve"    -> ProcessResolve(t, cl, rb, held)
      [] t.tx_type = "chargeback" -> ProcessChargeback(t, cl, rb, held)

(***************************************************************************)
(* State.  clients, processed_txs and held_txs are the three stores of    *)
(* main; tx and result are the argument and the return value of the last  *)
(* process_transaction call (tx is None before the first) and steps       *)
(* counts the calls.  found is the value of the last get_by_tx call made  *)
(* on the buffer directly (SpecRB).  requested is the capacity the buffer *)
(* was built with and pushed the sequence of all transactions ever pushed *)
(* into it, oldest first; terminal is the set of transaction ids for which *)
(* a Resolve or a Chargeback has succeeded.                                *)
(*                                                                         *)
(* The run of main (SpecMain): pc is where main is, args is args.len()    *)
(* (the program name included), file_ok whether File::open succeeds,      *)
(* remaining the number of records the reader has still to yield,         *)
(* referenced the client ids of the records read so far (of all of them,  *)
(* and of the Deposits and Withdrawals), clean the stores of the run over  *)
(* the same records without those that failed, and output the records      *)
(* serialized to stdout.                                                   *)
(***************************************************************************)
VARIABLES clients, processed_txs, held_txs, tx, result, steps, found, requested, pushed,
          terminal, pc, args, file_ok, remaining, referenced, clean, output

mainvars == <<pc, args, file_ok, remaining, referenced, clean, output>>

vars == <<clients, processed_txs, held_txs, tx, result, steps, found, requested, pushed,
          terminal, mainvars>>

\* The stores as main constructs them, before any record is read.
InitStores ==
    /\ clients = EmptyMap
    /\ processed_txs \in with_capacity(requested)
    /\ held_txs = EmptyMap
    /\ tx = None
    /\ result = "Ok"
    /\ steps = 0
    /\ found = None
    /\ pushed = <<>>
    /\ terminal = {}
    /\ referenced = [any |-> {}, settled |-> {}]
    /\ clean = Outcome("Ok", EmptyMap, processed_txs, EmptyMap)
    /\ output = <<>>

\* main: the three stores as constructed; the buffer is built with one capacity.
Init ==
    /\ requested = MaxCapacity
    /\ InitStores
    /\ pc = "loop"
    /\ args = 2
    /\ file_ok = TRUE
    /\ remaining = 0

\* process_transaction(t, &mut clients, &mut processed_txs, &mut held_txs) on
\* the stores, with the record of what it was given and what it returned.  A
\* panic ends the process: no call follows it.
Apply(t) ==
    /\ result # "Panic"
    /\ LET o == process_transaction(t, clients, processed_txs, held_txs)
       IN  /\ clients' = o.clients
           /\ processed_txs' = o.processed_txs
           /\ held_txs' = o.held_txs
           /\ result' = o.result
           /\ pushed' = IF o.result = "Ok" /\ t.tx_type \in {"deposit", "withdrawal"}
                        THEN Append(pushed, t)
                        ELSE pushed
           /\ terminal' = IF o.result = "Ok" /\ t.tx_type \in {"resolve", "chargeback"}
                          THEN terminal \cup {t.id}
                          ELSE terminal
    /\ tx' = Some(t)
    /\ steps' = steps + 1

\* One call of process_transaction on its own, as the tests make it.
Call(t) ==
    /\ Apply(t)
    /\ UNCHANGED <<found, requested, mainvars>>

OfType(ty) == {t \in Transaction : t.tx_type = ty}

Deposit ==
    /\ steps < MaxSteps
    /\ \E t \in OfType("deposit") : Call(t)

Withdrawal ==
    /\ steps < MaxSteps
    /\ \E t \in OfType("withdrawal") : Call(t)

Dispute ==
    /\ steps < MaxSteps
    /\ \E t \in OfType("dispute") : Call(t)

Resolve ==
    /\ steps < MaxSteps
    /\ \E t \in OfType("resolve") : Call(t)

Chargeback ==
    /\ steps < MaxSteps
    /\ \E t \in OfType("chargeback") : Call(t)

Next == Deposit \/ Withdrawal \/ Dispute \/ Resolve \/ Chargeback

Spec == Init /\ [][Next]_vars

(***************************************************************************)
(* The run of main.  Amounts are whole numbers of a unit of which Scale    *)
(* make 0.0001, so that the rounding to 4 decimal places has something to  *)
(* round; the records are drawn one at a time as the reader yields them.   *)
(***************************************************************************)
\* Number of records of the input.
MaxInput == 3

\* Units per 0.0001.
Scale == 2

\* args.len(): the program name and zero, one or two positional arguments.
ArgCounts == {1, 2, 3}

\* Mutant of Round4: the value is truncated to 4 decimal places.
Round4_Truncate(v) ==
    LET a == IF v < 0 THEN -v ELSE v
        q == a \div Scale
    IN  IF v < 0 THEN -(q * Scale) ELSE q * Scale

\* (v * 10000.0f64).round() / 10000.0f64: f64::round rounds half-way cases
\* away from zero.
Round4(v) ==
    LET a == IF v < 0 THEN -v ELSE v
        q == (2 * a + Scale) \div (2 * Scale)
    IN  IF v < 0 THEN -(q * Scale) ELSE q * Scale

\* The orders in which the values of a HashMap with key set S can be iterated.
Orders(S) ==
    {s \in [1..Cardinality(S) -> S] : \A i, j \in 1..Cardinality(S) : i # j => s[i] # s[j]}

InitMain ==
    /\ requested = MaxCapacity
    /\ InitStores
    /\ pc = "start"
    /\ args \in ArgCounts
    /\ file_ok \in BOOLEAN
    /\ remaining \in 0..MaxInput

storevars == <<clients, processed_txs, held_txs, tx, result, steps, found, requested,
               pushed, terminal>>

\* if args.len() > 2 { eprintln!(usage); exit(1) }
CheckArgs ==
    /\ pc = "start"
    /\ pc' = IF args > 2 THEN "usage" ELSE "open"
    /\ UNCHANGED <<storevars, args, file_ok, remaining, referenced, clean, output>>

\* File::open(&args[1]).expect("file to exist"): args[1] panics when there is
\* no positional argument, expect panics when the file cannot be opened.
OpenInput ==
    /\ pc = "open"
    /\ pc' = IF args < 2 \/ ~file_ok THEN "panic" ELSE "loop"
    /\ UNCHANGED <<storevars, args, file_ok, remaining, referenced, clean, output>>

\* Mutant of Read: the first record that fails ends the loop.
Read_StopAtError ==
    /\ pc = "loop"
    /\ remaining > 0
    /\ \/ /\ result # "Panic"
          /\ result' = "ParseError"
          /\ tx' = None
          /\ steps' = steps + 1
          /\ UNCHANGED <<clients, processed_txs, held_txs, pushed, terminal, referenced,
                         clean>>
       \/ \E t \in Transaction :
             /\ Apply(t)
             /\ referenced' =
                   [any |-> referenced.any \cup {t.client},
                    settled |-> IF t.tx_type \in {"deposit", "withdrawal"}
                                THEN referenced.settled \cup {t.client}
                                ELSE referenced.settled]
             /\ clean' = IF result' = "Ok"
                         THEN process_transaction(t, clean.clients, clean.processed_txs,
                                                  clean.held_txs)
                         ELSE clean
    /\ remaining' = IF result' = "Ok" THEN remaining - 1 ELSE 0
    /\ UNCHANGED <<found, requested, pc, args, file_ok, output>>

\* One iteration of the for loop: the reader yields a record that does not
\* deserialize, or a Transaction that process_transaction is called with; the
\* error of either is dropped.
Read ==
    /\ pc = "loop"
    /\ remaining > 0
    /\ \/ /\ result # "Panic"
          /\ result' = "ParseError"
          /\ tx' = None
          /\ steps' = steps + 1
          /\ UNCHANGED <<clients, processed_txs, held_txs, pushed, terminal, referenced,
                         clean>>
       \/ \E t \in Transaction :
             /\ Apply(t)
             /\ referenced' =
                   [any |-> referenced.any \cup {t.client},
                    settled |-> IF t.tx_type \in {"deposit", "withdrawal"}
                                THEN referenced.settled \cup {t.client}
                                ELSE referenced.settled]
             /\ clean' = IF result' = "Ok"
                         THEN process_transaction(t, clean.clients, clean.processed_txs,
                                                  clean.held_txs)
                         ELSE clean
    /\ remaining' = remaining - 1
    /\ UNCHANGED <<found, requested, pc, args, file_ok, output>>

\* The reader is exhausted: for client in clients.values_mut() { round }.
Round ==
    /\ pc = "loop"
    /\ remaining = 0
    /\ clients' = [c \in DOMAIN clients |->
                      [clients[c] EXCEPT !.available = Round4(@),
                                         !.total = Round4(@),
                                         !.held = Round4(@)]]
    /\ pc' = "emit"
    /\ UNCHANGED <<processed_txs, held_txs, tx, result, steps, found, requested, pushed,
                   terminal, args, file_ok, remaining, referenced, clean, output>>

\* for client in clients.values() { csv_writer.serialize(client) }
Emit ==
    /\ pc = "emit"
    /\ \E s \in Orders(DOMAIN clients) :
          output' = [i \in 1..Len(s) |-> clients[s[i]]]
    /\ pc' = "done"
    /\ UNCHANGED <<storevars, args, file_ok, remaining, referenced, clean>>

NextMain == CheckArgs \/ OpenInput \/ Read \/ Round \/ Emit

\* main runs on: a step that can be taken is taken.
SpecMain == InitMain /\ [][NextMain]_vars /\ WF_vars(NextMain)

(***************************************************************************)
(* The RingBuffer on its own: a buffer built with any requested capacity, *)
(* pushes of transactions with pairwise distinct ids, and lookups.        *)
(***************************************************************************)
RBIds == 1..MaxPushes

InitRB ==
    /\ requested \in 0..MaxCapacity
    /\ InitStores
    /\ pc = "loop"
    /\ args = 2
    /\ file_ok = TRUE
    /\ remaining = 0

\* buffer.push(t) for a transaction whose id was never pushed before.
RBPush ==
    \E i \in RBIds, c \in ClientIds :
        LET t == [tx_type |-> "deposit", client |-> c, id |-> i, amount |-> Some(i)]
        IN  /\ \A k \in 1..Len(pushed) : pushed[k].id # i
            /\ processed_txs' = push(processed_txs, t)
            /\ pushed' = Append(pushed, t)
            /\ UNCHANGED <<clients, held_txs, tx, result, steps, found, requested,
                           terminal, mainvars>>

\* buffer.get_by_tx(id): a read through &self.
RBGet ==
    \E i \in RBIds :
        /\ found' = get_by_tx(processed_txs, i)
        /\ UNCHANGED <<clients, processed_txs, held_txs, tx, result, steps, requested,
                       pushed, terminal, mainvars>>

NextRB == RBPush \/ RBGet

SpecRB == InitRB /\ [][NextRB]_vars

(***************************************************************************)
(* Properties.  In a step of Spec, unwrap(tx') is the transaction the     *)
(* call was given, result' what it returned, the unprimed stores are the  *)
(* stores before the call and the primed ones the stores after it.        *)
(***************************************************************************)
T == unwrap(tx')

\* The ids held by the buffer, read off its content.
BufferIds(rb) == {rb.inside[i].id : i \in 1..Len(rb.inside)}

\* C1: after any sequence of transactions, successful or failing, every
\* account of the ledger satisfies total = available + held.
C1_TotalIsAvailablePlusHeld ==
    \A c \in DOMAIN clients :
        clients[c].total = clients[c].available + clients[c].held

\* C1 witness: an account with funds held and funds available, after a dispute.
C1_Witness ==
    \E c \in DOMAIN clients :
        /\ clients[c].held > 0
        /\ clients[c].available > 0
        /\ held_txs # EmptyMap

\* C2 (as claimed): whenever the call returns an error, the ledger (its set
\* of accounts and every account's fields), the buffer and the registry are
\* exactly as before the call.
C2_ErrorLeavesStoresUntouched ==
    [][result' # "Ok" =>
          /\ clients' = clients
          /\ processed_txs' = processed_txs
          /\ held_txs' = held_txs]_vars

\* C3 (as claimed): a Dispute for an id that has an active entry in the
\* registry fails and leaves all balances unchanged.
C3_SecondDisputeFails ==
    [][(T.tx_type = "dispute" /\ T.id \in DOMAIN held_txs) =>
          /\ result' # "Ok"
          /\ clients' = clients]_vars

\* C4: a Dispute whose id is not in the buffer (never pushed, or evicted)
\* fails with the unknown-transaction error, changes no account, creates no
\* account and adds nothing to the registry.
C4_DisputeOfUnknownTransaction ==
    [][(T.tx_type = "dispute" /\ T.id \notin BufferIds(processed_txs)) =>
          /\ result' = "UnknownTransaction"
          /\ clients' = clients
          /\ held_txs' = held_txs
          /\ processed_txs' = processed_txs]_vars

\* C4 witness: a Dispute has just failed on an id that was pushed earlier and
\* has since been evicted from the buffer.
C4_Witness ==
    /\ tx # None
    /\ unwrap(tx).tx_type = "dispute"
    /\ result = "UnknownTransaction"
    /\ \E k \in 1..Len(pushed) : pushed[k].id = unwrap(tx).id
    /\ unwrap(tx).id \notin BufferIds(processed_txs)

\* C5 (as claimed): a buffer built with capacity C, after pushes of
\* transactions with distinct ids, never holds more than C entries; get_by_tx
\* returns the transaction pushed with an id exactly when it is among the C
\* most recently pushed and None for every older id; the content is the most
\* recent pushes in insertion order.
C5_BufferKeepsRequestedCapacity ==
    LET n == Len(pushed)
        len == Len(processed_txs.inside)
        Recent == {pushed[k] : k \in (IF n > requested THEN n - requested + 1 ELSE 1)..n}
    IN  /\ len <= requested
        /\ \A i \in RBIds :
              get_by_tx(processed_txs, i) =
                  IF \E t \in Recent : t.id = i
                  THEN Some(CHOOSE t \in Recent : t.id = i)
                  ELSE None
        /\ processed_txs.inside = SubSeq(pushed, n - len + 1, n)

\* The account of client c before the call; an account not yet in the ledger
\* counts with the fields of a new account.
Before(c) ==
    IF c \in DOMAIN clients
    THEN clients[c]
    ELSE [client |-> c, available |-> 0, held |-> 0, total |-> 0, locked |-> FALSE]

\* The call appended t to the buffer: t is the newest entry and the older
\* entries are the previous content, less its oldest entry if one was evicted.
Appended(t) ==
    LET old == processed_txs.inside
        new == processed_txs'.inside
    IN  /\ new # <<>>
        /\ new[Len(new)] = t
        /\ \/ SubSeq(new, 1, Len(new) - 1) = old
           \/ old # <<>> /\ SubSeq(new, 1, Len(new) - 1) = Tail(old)

\* The first entry of the buffer, oldest first, with id i.
FirstWithId(rb, i) ==
    rb.inside[CHOOSE k \in 1..Len(rb.inside) :
                  /\ rb.inside[k].id = i
                  /\ \A j \in 1..(k - 1) : rb.inside[j].id # i]

\* C6: a Withdrawal carrying an amount succeeds if and only if the account's
\* available is at least the amount.  On success available and total decrease
\* by the amount, held and locked are unchanged and the withdrawal is appended
\* to the buffer; on failure available, held and total are unchanged and the
\* buffer is unchanged.
C6_Withdrawal ==
    [][(T.tx_type = "withdrawal" /\ T.amount # None) =>
          LET a == unwrap(T.amount)
              b == Before(T.client)
          IN  /\ (result' = "Ok") <=> (b.available >= a)
              /\ result' = "Ok" =>
                    /\ clients'[T.client] = [b EXCEPT !.available = @ - a, !.total = @ - a]
                    /\ Appended(T)
              /\ result' # "Ok" =>
                    /\ clients'[T.client].available = b.available
                    /\ clients'[T.client].held = b.held
                    /\ clients'[T.client].total = b.total
                    /\ processed_txs' = processed_txs]_vars

\* C6 witness: a Withdrawal of exactly the available balance has succeeded.
C6_Witness ==
    /\ tx # None
    /\ unwrap(tx).tx_type = "withdrawal"
    /\ result = "Ok"
    /\ clients[unwrap(tx).client].available = 0
    /\ processed_txs.inside[Len(processed_txs.inside)] = unwrap(tx)

\* C7: a Deposit with an amount always succeeds: the target account (created
\* zeroed and unlocked if absent) has available and total increased by the
\* amount, held and locked unchanged, every other account and the registry
\* are unchanged and the deposit is appended to the buffer.  A Deposit without
\* an amount fails with the missing-amount error and is not appended.
C7_Deposit ==
    [][T.tx_type = "deposit" =>
          IF T.amount = None
          THEN /\ result' = "MissingAmount"
               /\ processed_txs' = processed_txs
          ELSE LET a == unwrap(T.amount)
                   b == Before(T.client)
               IN  /\ result' = "Ok"
                   /\ DOMAIN clients' = DOMAIN clients \cup {T.client}
                   /\ clients'[T.client] = [b EXCEPT !.available = @ + a, !.total = @ + a]
                   /\ \A c \in DOMAIN clients \ {T.client} : clients'[c] = clients[c]
                   /\ held_txs' = held_txs
                   /\ Appended(T)]_vars

\* C7 witness: a Deposit has succeeded on an account that already held funds.
C7_Witness ==
    /\ tx # None
    /\ unwrap(tx).tx_type = "deposit"
    /\ result = "Ok"
    /\ clients[unwrap(tx).client].total > unwrap(unwrap(tx).amount)
    /\ Cardinality(DOMAIN clients) = 2

\* C8: a successful Dispute of an id whose buffered transaction is d, with
\* amount a: the account owning d has available decreased by a and held
\* increased by a, total and locked unchanged; all other accounts and the
\* buffer are unchanged; afterwards the registry maps the id to a copy of d.
C8_Dispute ==
    [][(T.tx_type = "dispute" /\ result' = "Ok") =>
          /\ T.id \in BufferIds(processed_txs)
          /\ LET d == FirstWithId(processed_txs, T.id)
                 a == unwrap(d.amount)
             IN  /\ d.tx_type \in {"deposit", "withdrawal"}
                 /\ d.client \in DOMAIN clients
                 /\ clients' = [clients EXCEPT ![d.client] =
                                   [@ EXCEPT !.available = @ - a, !.held = @ + a]]
                 /\ processed_txs' = processed_txs
                 /\ T.id \in DOMAIN held_txs'
                 /\ held_txs'[T.id] = d]_vars

\* C8 witness: a Dispute of a buffered Withdrawal has succeeded, sent under a
\* client other than the one owning the withdrawal.
C8_Witness ==
    /\ tx # None
    /\ unwrap(tx).tx_type = "dispute"
    /\ result = "Ok"
    /\ unwrap(tx).id \in DOMAIN held_txs
    /\ held_txs[unwrap(tx).id].tx_type = "withdrawal"
    /\ held_txs[unwrap(tx).id].client # unwrap(tx).client

\* C9 (as claimed): a successful Resolve of a disputed id with amount a
\* decreases the owner's held by a, increases its available by a, leaves total
\* and locked unchanged and removes the id from the registry; and a Dispute
\* immediately followed by a Resolve of the same id returns the ledger and the
\* registry to exactly their values before the Dispute.
C9_ResolveUndoesDispute ==
    /\ \A r \in OfType("resolve") :
          LET o == process_transaction(r, clients, processed_txs, held_txs)
          IN  o.result = "Ok" =>
                 LET d == held_txs[r.id]
                     a == unwrap(d.amount)
                 IN  /\ o.clients = [clients EXCEPT ![d.client] =
                                        [@ EXCEPT !.held = @ - a, !.available = @ + a]]
                     /\ r.id \notin DOMAIN o.held_txs
    /\ \A d \in OfType("dispute"), r \in OfType("resolve") :
          LET o1 == process_transaction(d, clients, processed_txs, held_txs)
              o2 == process_transaction(r, o1.clients, o1.processed_txs, o1.held_txs)
          IN  (r.id = d.id /\ o1.result = "Ok") =>
                 /\ o2.result = "Ok"
                 /\ o2.clients = clients
                 /\ o2.held_txs = held_txs

\* C10: a successful Chargeback of a disputed id with amount a decreases the
\* owning account's held and total by a, leaves its available unchanged, sets
\* its locked flag, removes the id from the registry and changes no other
\* account.
C10_Chargeback ==
    [][(T.tx_type = "chargeback" /\ result' = "Ok") =>
          /\ T.id \in DOMAIN held_txs
          /\ LET d == held_txs[T.id]
                 a == unwrap(d.amount)
             IN  /\ clients' = [clients EXCEPT ![d.client] =
                                   [@ EXCEPT !.held = @ - a, !.total = @ - a,
                                             !.locked = TRUE]]
                 /\ DOMAIN held_txs' = DOMAIN held_txs \ {T.id}
                 /\ \A i \in DOMAIN held_txs' : held_txs'[i] = held_txs[i]
                 /\ processed_txs' = processed_txs]_vars

\* C10 witness: a Chargeback has succeeded, one account is locked and another
\* account is not.
C10_Witness ==
    /\ tx # None
    /\ unwrap(tx).tx_type = "chargeback"
    /\ result = "Ok"
    /\ \E c1, c2 \in DOMAIN clients : clients[c1].locked /\ ~clients[c2].locked

\* C11: an account's locked flag is false when the account is created, becomes
\* true only when a Chargeback succeeds on a transaction owned by that account,
\* and once true stays true after every later transaction of any kind.
C11_LockedOnlyByChargeback ==
    [][/\ DOMAIN clients \subseteq DOMAIN clients'
       /\ \A c \in DOMAIN clients' :
             IF c \notin DOMAIN clients
             THEN ~clients'[c].locked
             ELSE /\ clients[c].locked => clients'[c].locked
                  /\ (~clients[c].locked /\ clients'[c].locked) =>
                        /\ T.tx_type = "chargeback"
                        /\ result' = "Ok"
                        /\ T.id \in DOMAIN held_txs
                        /\ held_txs[T.id].client = c]_vars

\* C11 witness: a Deposit has succeeded on an account locked by an earlier
\* Chargeback, and the account is still locked.
C11_Witness ==
    /\ tx # None
    /\ unwrap(tx).tx_type = "deposit"
    /\ result = "Ok"
    /\ clients[unwrap(tx).client].locked

\* The ledger cl with the locked flag of every account inverted.
LockedInverted(cl) == [c \in DOMAIN cl |-> [cl[c] EXCEPT !.locked = ~@]]

\* An outcome without the locked flags: the result, the funds of every
\* account, the buffer and the registry.
Unlocked(o) ==
    [o EXCEPT !.clients = [c \in DOMAIN @ |-> [@[c] EXCEPT !.locked = FALSE]]]

\* C12: the locked flag blocks nothing: for every call, the outcome and the
\* resulting available, held, total, buffer and registry are the same as the
\* call gives on the same stores with every account that is locked unlocked
\* and every account that is unlocked locked.
C12_LockedBlocksNothing ==
    [][Unlocked(process_transaction(T, LockedInverted(clients), processed_txs, held_txs))
       = Unlocked(Outcome(result', clients', processed_txs', held_txs'))]_vars

\* C12 witness: a Dispute has succeeded against an account that a Chargeback
\* had locked.
C12_Witness ==
    /\ tx # None
    /\ unwrap(tx).tx_type = "dispute"
    /\ result = "Ok"
    /\ unwrap(tx).id \in DOMAIN held_txs
    /\ clients[held_txs[unwrap(tx).id].client].locked

\* C14 (as claimed): once a Resolve or a Chargeback has succeeded for a
\* transaction id, no later Dispute, Resolve or Chargeback for that id succeeds
\* or changes any balance.
C14_TerminalIdStaysTerminal ==
    [][(T.tx_type \in {"dispute", "resolve", "chargeback"} /\ T.id \in terminal) =>
          /\ result' # "Ok"
          /\ clients' = clients]_vars

\* C15: a Resolve or a Chargeback succeeds if and only if its id has an entry
\* in the registry, whatever the buffer holds: it fails with the
\* unknown-dispute error otherwise, also for a settled id that is not disputed,
\* and it succeeds for a disputed id whose transaction has left the buffer.
C15_ResolveChargebackByRegistry ==
    [][T.tx_type \in {"resolve", "chargeback"} =>
          IF T.id \in DOMAIN held_txs
          THEN result' = "Ok"
          ELSE result' = "UnknownDispute"]_vars

\* C15 witness: a Resolve has succeeded for an id that was disputed and whose
\* transaction had been evicted from the buffer before the Resolve.
C15_Witness ==
    /\ tx # None
    /\ unwrap(tx).tx_type = "resolve"
    /\ result = "Ok"
    /\ unwrap(tx).id \notin BufferIds(processed_txs)

\* A settled transaction: a Deposit or a Withdrawal that carries an amount.
Settled(t) == t.tx_type \in {"deposit", "withdrawal"} /\ t.amount # None

\* C19: in every reachable state every entry of the buffer and every entry of
\* the registry is a Deposit or a Withdrawal with an amount; no Dispute has
\* returned the invalid-dispute-target error and no amount unwrap has panicked,
\* the inputs including Deposits and Withdrawals without an amount and
\* dispute-family records with one.
C19_EntriesAreSettledWithAmount ==
    /\ \A i \in 1..Len(processed_txs.inside) : Settled(processed_txs.inside[i])
    /\ \A k \in DOMAIN held_txs : Settled(held_txs[k])
    /\ result \notin {"InvalidDisputeTarget", "Panic"}

\* C19 witness: after a Deposit without an amount was rejected for an account,
\* a Dispute that carries an amount has succeeded and its registry entry is the
\* settled transaction, not the Dispute record.
C19_Witness ==
    /\ tx # None
    /\ unwrap(tx).tx_type = "dispute"
    /\ unwrap(tx).amount # None
    /\ result = "Ok"
    /\ unwrap(tx).id \in DOMAIN held_txs
    /\ held_txs[unwrap(tx).id].tx_type = "deposit"
    /\ \E c \in DOMAIN clients : clients[c].total = 0 /\ clients[c].held = 0

\* C20: no call returns the unknown-account error: no account leaves the
\* ledger, after every call the owner of each buffer entry and of each registry
\* entry has an account, and a Resolve or a Chargeback that fails leaves the
\* registry as it was.
C20_UnknownAccountUnreachable ==
    [][/\ DOMAIN clients \subseteq DOMAIN clients'
       /\ result' # "UnknownAccount"
       /\ \A i \in 1..Len(processed_txs'.inside) :
             processed_txs'.inside[i].client \in DOMAIN clients'
       /\ \A k \in DOMAIN held_txs' : held_txs'[k].client \in DOMAIN clients'
       /\ (T.tx_type \in {"resolve", "chargeback"} /\ result' # "Ok") =>
             held_txs' = held_txs]_vars

\* C20 witness: a Chargeback has succeeded while the charged-back transaction is
\* still in the buffer; its owner still has an account.
C20_Witness ==
    /\ tx # None
    /\ unwrap(tx).tx_type = "chargeback"
    /\ result = "Ok"
    /\ \E i \in 1..Len(processed_txs.inside) :
          /\ processed_txs.inside[i].id = unwrap(tx).id
          /\ processed_txs.inside[i].client \in DOMAIN clients

\* The stores of o, the accounts restricted to those of the set S.
StoresOn(S, o) ==
    [clients |-> [c \in S |-> o.clients[c]],
     processed_txs |-> o.processed_txs,
     held_txs |-> o.held_txs]

\* C16: each iteration of the loop consumes exactly one record and leaves main
\* in the loop whatever the record's result, the loop is left only when no
\* record remains; after every record the buffer, the registry and the accounts
\* are those of the run over the same records without the failed ones, except
\* that the run with them may hold untouched new accounts (the effect a failing
\* Deposit or Withdrawal has); and a run that enters the loop reaches the end of
\* the output.
C16_EveryRecordOnceThenOutput ==
    /\ [][/\ (pc = "loop" /\ steps' # steps) =>
                /\ steps' = steps + 1
                /\ remaining' = remaining - 1
                /\ pc' = "loop"
          /\ (pc = "loop" /\ pc' # "loop") => (remaining = 0 /\ steps' = steps)
          /\ pc' = "loop" =>
                /\ DOMAIN clean'.clients \subseteq DOMAIN clients'
                /\ StoresOn(DOMAIN clean'.clients, clean')
                      = StoresOn(DOMAIN clean'.clients,
                                 Outcome("Ok", clients', processed_txs', held_txs'))
                /\ \A c \in DOMAIN clients' \ DOMAIN clean'.clients :
                      clients'[c] = ClientNew(c)
                /\ clean'.result = "Ok"]_vars
    /\ (pc = "loop") ~> (pc = "done")

\* C16 witness: the run has reached the end of the output after three records,
\* one of which failed and left a new account behind and the last of which
\* succeeded.
C16_Witness ==
    /\ pc = "done"
    /\ steps = 3
    /\ result = "Ok"
    /\ DOMAIN clients # DOMAIN clean.clients
    /\ Len(output) = 2

\* The client ids of the records of the output.
OutputIds == {output[i].client : i \in 1..Len(output)}

\* C13 as stated: after all input is processed the output holds exactly one
\* record for each client id that appeared in any record read, of any kind, and
\* none for another id.
C13_OneRecordPerReferencedId ==
    pc = "done" =>
        /\ OutputIds = referenced.any
        /\ Len(output) = Cardinality(referenced.any)

\* C13 amended: after all input is processed the output holds exactly one
\* record for each client id that appeared in a Deposit or a Withdrawal record,
\* whether that record succeeded or failed, and none for another id; the client
\* id of a Dispute, Resolve or Chargeback record creates no account.
C13_OneRecordPerDepositWithdrawalId ==
    pc = "done" =>
        /\ OutputIds = referenced.settled
        /\ Len(output) = Cardinality(referenced.settled)

\* C13 witness: the output is complete for a run whose last record, a
\* Withdrawal, failed, and in which a dispute-family record named a client id
\* that no Deposit or Withdrawal named.
C13_Witness ==
    /\ pc = "done"
    /\ tx # None
    /\ unwrap(tx).tx_type = "withdrawal"
    /\ result # "Ok"
    /\ referenced.settled # referenced.any
    /\ unwrap(tx).client \in OutputIds

\* r is v rounded to a whole multiple of Scale units (4 decimal places): r is
\* a multiple nearest to v, and of two nearest multiples the one away from zero.
IsRounding(r, v) ==
    LET Abs(x) == IF x < 0 THEN -x ELSE x
    IN  /\ Abs(r) % Scale = 0
        /\ 2 * Abs(r - v) <= Scale
        /\ 2 * Abs(r - v) = Scale => Abs(r) > Abs(v)

\* The deposits less the withdrawals of client c among the transactions s.
RECURSIVE Net(_, _)
Net(c, s) ==
    IF s = <<>> THEN 0
    ELSE LET t == s[Len(s)]
             rest == Net(c, SubSeq(s, 1, Len(s) - 1))
         IN  IF t.client # c THEN rest
             ELSE IF t.tx_type = "deposit" THEN rest + unwrap(t.amount)
             ELSE rest - unwrap(t.amount)

\* C17: while records are applied no balance is rounded: the total of an account
\* that has had no chargeback is exactly its deposits less its withdrawals.  The
\* step that ends the loop replaces available, held and total of every account
\* by their rounding to 4 decimal places, nearest and half away from zero; no
\* later step changes an account, and the output is the accounts so rounded, so
\* that the reported total of such an account is the rounding of the exact sum.
C17_RoundedOnceAtTheEnd ==
    [][/\ pc' = "loop" =>
             \A c \in DOMAIN clients' :
                 ~clients'[c].locked => clients'[c].total = Net(c, pushed')
       /\ (pc = "loop" /\ pc' # "loop") =>
             /\ DOMAIN clients' = DOMAIN clients
             /\ \A c \in DOMAIN clients :
                   /\ IsRounding(clients'[c].available, clients[c].available)
                   /\ IsRounding(clients'[c].held, clients[c].held)
                   /\ IsRounding(clients'[c].total, clients[c].total)
                   /\ clients'[c].locked = clients[c].locked
                   /\ clients'[c].client = clients[c].client
       /\ pc \in {"emit", "done"} => clients' = clients
       /\ pc' = "done" =>
             /\ Len(output') = Cardinality(DOMAIN clients')
             /\ \A i \in 1..Len(output') :
                   /\ output'[i].client \in DOMAIN clients'
                   /\ output'[i] = clients'[output'[i].client]
                   /\ ~output'[i].locked =>
                         IsRounding(output'[i].total, Net(output'[i].client, pushed'))]_vars

\* C17 witness: the output reports a negative available that is not the exact
\* value: the exact value was half-way between two multiples of 0.0001.
C17_Witness ==
    /\ pc = "done"
    /\ \E i \in 1..Len(output) :
          /\ ~output[i].locked
          /\ output[i].available < 0
          /\ output[i].total # Net(output[i].client, pushed)

\* C18 as stated: with an argument count other than one positional argument
\* main ends in the usage error, before the input is opened and before any
\* record is processed.
C18_WrongArgumentCountIsUsageError ==
    args # 2 => (pc \in {"start", "open", "usage"} /\ steps = 0)

\* The sum of the amounts of the registry entries with an id in S that client c
\* owns.
RECURSIVE HeldSum(_, _, _)
HeldSum(c, held, S) ==
    IF S = {} THEN 0
    ELSE LET k == CHOOSE x \in S : TRUE
             rest == HeldSum(c, held, S \ {k})
         IN  IF held[k].client = c THEN rest + unwrap(held[k].amount) ELSE rest

\* C21 (as claimed): in every reachable state the held of each account is the
\* sum of the amounts of the registry entries that the account owns, and so 0
\* when the account owns none.
C21_HeldIsSumOfRegistry ==
    \A c \in DOMAIN clients : clients[c].held = HeldSum(c, held_txs, DOMAIN held_txs)

\* The clients that own the transaction a dispute-family record t refers to:
\* for a Dispute the owner of the first buffer entry with the id, for a Resolve
\* or a Chargeback the owner of the registry entry; none when there is no entry.
OwnerOf(t, rb, held) ==
    IF t.tx_type = "dispute"
    THEN IF t.id \in BufferIds(rb) THEN {FirstWithId(rb, t.id).client} ELSE {}
    ELSE IF t.id \in DOMAIN held THEN {held[t.id].client} ELSE {}

\* C22: the client field of a Dispute, Resolve or Chargeback record plays no
\* role.  The same record with any other client id has the same result and
\* leaves the same ledger, buffer and registry; the call changes no account but
\* that of the owner of the transaction referred to, and creates none, whether
\* or not the record's client is the owner or has an account.
C22_DisputeFamilyClientIgnored ==
    [][T.tx_type \in {"dispute", "resolve", "chargeback"} =>
          /\ \A c \in ClientIds \ {T.client} :
                process_transaction([T EXCEPT !.client = c],
                                    clients, processed_txs, held_txs)
                   = Outcome(result', clients', processed_txs', held_txs')
          /\ DOMAIN clients' = DOMAIN clients
          /\ \A c \in DOMAIN clients :
                clients'[c] # clients[c] => c \in OwnerOf(T, processed_txs, held_txs)]_vars

\* C22 witness: a Dispute has succeeded whose client is not the owner of the
\* disputed transaction and has no account; the owner's funds are held.
C22_Witness ==
    /\ tx # None
    /\ unwrap(tx).tx_type = "dispute"
    /\ result = "Ok"
    /\ unwrap(tx).client \notin DOMAIN clients
    /\ unwrap(tx).id \in DOMAIN held_txs
    /\ held_txs[unwrap(tx).id].client # unwrap(tx).client
    /\ clients[held_txs[unwrap(tx).id].client].held > 0

====
